---- MODULE Spec2Model ----
(***************************************************************************)
(* CRMhub backend: organizations, role-gated membership, invitation        *)
(* tokens, leads and the lead audit history.                               *)
(*                                                                         *)
(* Every request handler of the routers is one action.  The action         *)
(* computes the handler's response from the stored rows exactly in the     *)
(* order of the handler's checks, applies the handler's writes when the    *)
(* handler reaches them, and records the request and its response in       *)
(* `last` (the response the client observes).                              *)
(*                                                                         *)
(* The handlers that read rows and write them in separate statements are   *)
(* modelled a second time in steps, one action per statement that reaches  *)
(* the database, with the objects their Session has loaded kept in         *)
(* `sessions`: these are the handlers as they run when requests overlap.   *)
(***************************************************************************)
EXTENDS Integers, Sequences, FiniteSets, TLC

VARIABLES
    organizations,  \* table organization: id -> row, for the ids that have one
    orgCount,       \* number of organization ids handed out by uuid4 so far
    links,          \* table userorganizationlink: <<org, user>> -> role or None
    leads,          \* table lead: id -> row, for the ids that have one
    leadCount,      \* number of lead ids handed out by uuid4 so far
    history,        \* table leadhistory, in insertion order
    issued,         \* invitation tokens signed by the server so far
    now,            \* the clock, in minutes
    last,           \* the last request and the response it got
    sessions        \* the requests in flight: session -> the position of its
                    \* handler and the objects its Session has loaded

vars == <<organizations, orgCount, links, leads, leadCount, history, issued, now, last,
          sessions>>

-----------------------------------------------------------------------------
(* Bounds of the model *)

MaxLeads == 1
MaxHistory == 2
MaxTime == 1
MaxTtl == 1
MaxTokens == 1

(* Python's None, and an absent key of a partial payload (exclude_unset) *)
None == "None"
Unset == "Unset"

(* Registered users (the identities get_current_user resolves) *)
Users == {"u1", "u2", "u3"}

(* The ids uuid4 hands out, in the order it hands them out *)
OrgIdSeq == <<"o1", "o2">>
OrgIds == {OrgIdSeq[i] : i \in 1..Len(OrgIdSeq)}
LeadIdSeq == <<"l1", "l2", "l3">>
LeadIds == {LeadIdSeq[i] : i \in 1..Len(LeadIdSeq)}

(* str(uuid): the canonical string of a UUID; a UUID and its string differ *)
UuidStrTable ==
    ("u1" :> "str(u1)") @@ ("u2" :> "str(u2)") @@ ("u3" :> "str(u3)") @@
    ("o1" :> "str(o1)") @@ ("o2" :> "str(o2)")
UuidStr(u) == UuidStrTable[u]

(* uuid.UUID(s): the UUID a string denotes; ValueError when it denotes none *)
ValueError == "ValueError"
ParseUuid(s) ==
    IF \E u \in DOMAIN UuidStrTable : UuidStrTable[u] = s
    THEN CHOOSE u \in DOMAIN UuidStrTable : UuidStrTable[u] = s
    ELSE ValueError

(* class OrgRole *)
Roles == {"admin", "member", "owner", "viewer"}

OrgNames == {"Owner Corp", "Mega Corp"}

(* An HTTP response: status code and detail *)
Resp(code, detail) == [status |-> code, detail |-> detail]
Ok == Resp(200, "ok")

(* A request before any request was made *)
NoRequest == [op |-> "none", org |-> None, user |-> None, role |-> None, resp |-> Ok]

(* database.py get_session: every request gets a Session of its own, and   *)
(* the handlers are plain functions, which the framework runs in worker    *)
(* threads.  Two requests can be in flight together; a session that has    *)
(* not been handed out is Idle.                                            *)
Sessions == {"s1", "s2"}
Idle == [pc |-> "idle"]
NoSessions == [s \in Sessions |-> Idle]

(* Deleting the row with key k from a table *)
Without(table, k) == [x \in DOMAIN table \ {k} |-> table[x]]

-----------------------------------------------------------------------------
(* organizations/service.py *)

(* get_member_link, and the same select written out in the routers *)
get_member_link(o, u) == links[<<o, u>>]

(* Organization.name is unique and not nullable: the commit of a row that  *)
(* breaks either raises IntegrityError, which no handler catches.          *)
NameRejected(o, name) ==
    \/ name = None
    \/ \E p \in DOMAIN organizations : p # o /\ organizations[p].name = name

IntegrityError == Resp(500, "IntegrityError")

(* A create_organization that stores the organization row alone *)
create_organization_rows_NoLink(o, name, owner) ==
    /\ organizations' = organizations @@ (o :> [name |-> name])
    /\ links' = links

(* create_organization: the organization row, then the creator's Owner link *)
create_organization_rows(o, name, owner) ==
    /\ organizations' = organizations @@ (o :> [name |-> name])
    /\ links' = [links EXCEPT ![<<o, owner>>] = "owner"]

(* update_organization: setattr for every key of model_dump(exclude_unset) *)
update_organization_rows(o, update_data) ==
    organizations' =
        IF "name" \in DOMAIN update_data
        THEN [organizations EXCEPT ![o].name = update_data["name"]]
        ELSE organizations

(* delete_organization: session.delete(db_org).  Organization.users is a   *)
(* relationship through the link table, so the unit of work of the ORM may *)
(* delete the organization's link rows with it; the source states no       *)
(* cascade, so both outcomes are kept.                                     *)
delete_organization_rows(o, linksGo) ==
    /\ organizations' = Without(organizations, o)
    /\ links' = IF linksGo
                THEN [k \in DOMAIN links |-> IF k[1] = o THEN None ELSE links[k]]
                ELSE links

(* add_member *)
add_member(o, u, role) == links' = [links EXCEPT ![<<o, u>>] = role]

(* A remove_member that commits nothing: the link stays *)
remove_member_KeepsLink(o, u) == links' = links

(* remove_member: deletes the link when there is one *)
remove_member(o, u) ==
    links' = IF get_member_link(o, u) # None
             THEN [links EXCEPT ![<<o, u>>] = None]
             ELSE links

(* update_member_role: sets the role when there is a link *)
update_member_role(o, u, role) ==
    links' = IF get_member_link(o, u) # None
             THEN [links EXCEPT ![<<o, u>>] = role]
             ELSE links

(* An invitation or session token: the claims of its payload and whether *)
(* its signature verifies under settings.SECRET_KEY.                       *)
Token(sub, org_id, exp, sig) == [sub |-> sub, org_id |-> org_id, exp |-> exp, sig |-> sig]

(* create_invitation_token *)
create_invitation_token(o, expiration_minutes) ==
    Token("invitation", UuidStr(o), now + expiration_minutes, "valid")

(* A jwt.decode that does not look at the exp claim *)
jwt_decode_raises_NoExpiry(token) == token.sig # "valid"

(* jwt.decode: JWTError on a signature that does not verify and on an exp  *)
(* claim in the past; the payload otherwise.                               *)
jwt_decode_raises(token) == token.sig # "valid" \/ token.exp < now

(* verify_invitation_token: the organization id, or None *)
verify_invitation_token(token) ==
    IF jwt_decode_raises(token) THEN None
    ELSE IF token.sub # "invitation" THEN None
    ELSE IF token.org_id = Unset \/ token.org_id = "" THEN None
    ELSE IF ParseUuid(token.org_id) = ValueError THEN None
    ELSE ParseUuid(token.org_id)

-----------------------------------------------------------------------------
(* organizations/router.py: the response of each handler *)

CreateOrganizationResp(name) ==
    IF \E p \in DOMAIN organizations : organizations[p].name = name
    THEN IntegrityError
    ELSE Ok

ReadOrganizationResp(o) ==
    IF o \notin DOMAIN organizations THEN Resp(404, "Organization not found") ELSE Ok

(* An update_organization that tells a requester without membership apart *)
UpdateOrganizationResp_NotAMember(o, u, update_data) ==
    LET link == get_member_link(o, u) IN
    IF link = None THEN Resp(403, "Not a member of this organization")
    ELSE IF link \notin {"owner", "admin"} THEN Resp(403, "Not enough permissions")
    ELSE IF o \notin DOMAIN organizations THEN Resp(404, "Organization not found")
    ELSE IF "name" \in DOMAIN update_data /\ NameRejected(o, update_data["name"])
    THEN IntegrityError
    ELSE Ok

UpdateOrganizationResp(o, u, update_data) ==
    LET link == get_member_link(o, u) IN
    IF link = None \/ link \notin {"owner", "admin"}
    THEN Resp(403, "Not enough permissions")
    ELSE IF o \notin DOMAIN organizations THEN Resp(404, "Organization not found")
    ELSE IF "name" \in DOMAIN update_data /\ NameRejected(o, update_data["name"])
    THEN IntegrityError
    ELSE Ok

(* A delete_organization that lets Admins through *)
DeleteOrganizationResp_AdminToo(o, u) ==
    LET link == get_member_link(o, u) IN
    IF link = None \/ link \notin {"owner", "admin"}
    THEN Resp(403, "Only owners can delete organizations")
    ELSE IF o \notin DOMAIN organizations THEN Resp(404, "Organization not found")
    ELSE Ok

DeleteOrganizationResp(o, u) ==
    LET link == get_member_link(o, u) IN
    IF link = None \/ link # "owner"
    THEN Resp(403, "Only owners can delete organizations")
    ELSE IF o \notin DOMAIN organizations THEN Resp(404, "Organization not found")
    ELSE Ok

CreateInvitationResp(o, u) ==
    LET link == get_member_link(o, u) IN
    IF link = None \/ link \notin {"owner", "admin"}
    THEN Resp(403, "Not enough permissions to invite users")
    ELSE Ok

(* A join_organization without the look-up of an existing link *)
JoinOrganizationResp_NoExistingCheck(u, token) ==
    LET org_id == verify_invitation_token(token) IN
    IF org_id = None THEN Resp(400, "Invalid or expired invitation token")
    ELSE Resp(200, "Successfully joined organization")

JoinOrganizationResp(u, token) ==
    LET org_id == verify_invitation_token(token) IN
    IF org_id = None THEN Resp(400, "Invalid or expired invitation token")
    ELSE IF get_member_link(org_id, u) # None
    THEN Resp(200, "You are already a member of this organization")
    ELSE Resp(200, "Successfully joined organization")

(* A remove_member without the protection of the Owner *)
RemoveMemberResp_NoOwnerCheck(o, u, target) ==
    LET requester_link == get_member_link(o, u)
        target_link == get_member_link(o, target) IN
    IF requester_link = None \/ requester_link \notin {"owner", "admin"}
    THEN Resp(403, "Not enough permissions")
    ELSE IF target_link = None THEN Resp(404, "Member not found in this organization")
    ELSE IF requester_link = "admin" /\ target_link \in {"owner", "admin"}
    THEN Resp(403, "Admins cannot remove other Admins or Owners")
    ELSE Ok

RemoveMemberResp(o, u, target) ==
    LET requester_link == get_member_link(o, u)
        target_link == get_member_link(o, target) IN
    IF requester_link = None \/ requester_link \notin {"owner", "admin"}
    THEN Resp(403, "Not enough permissions")
    ELSE IF target_link = None THEN Resp(404, "Member not found in this organization")
    ELSE IF requester_link = "admin" /\ target_link \in {"owner", "admin"}
    THEN Resp(403, "Admins cannot remove other Admins or Owners")
    ELSE IF target_link = "owner" THEN Resp(400, "Cannot remove the Owner")
    ELSE Ok

(* An update_member_role without the check of the role an Admin grants *)
UpdateMemberRoleResp_NoPromoteCheck(o, u, target, role) ==
    LET requester_link == get_member_link(o, u)
        target_link == get_member_link(o, target) IN
    IF requester_link = None \/ requester_link \notin {"owner", "admin"}
    THEN Resp(403, "Not enough permissions")
    ELSE IF target_link = None THEN Resp(404, "Member not found")
    ELSE IF requester_link = "admin" /\ target_link \in {"owner", "admin"}
    THEN Resp(403, "Admins cannot modify other Admins or Owners")
    ELSE IF target_link = "owner" THEN Resp(400, "Cannot change role of the Owner")
    ELSE Ok

UpdateMemberRoleResp(o, u, target, role) ==
    LET requester_link == get_member_link(o, u)
        target_link == get_member_link(o, target) IN
    IF requester_link = None \/ requester_link \notin {"owner", "admin"}
    THEN Resp(403, "Not enough permissions")
    ELSE IF target_link = None THEN Resp(404, "Member not found")
    ELSE IF requester_link = "admin" /\ target_link \in {"owner", "admin"}
    THEN Resp(403, "Admins cannot modify other Admins or Owners")
    ELSE IF requester_link = "admin" /\ role \in {"owner", "admin"}
    THEN Resp(403, "Admins cannot promote to Admin/Owner")
    ELSE IF target_link = "owner" THEN Resp(400, "Cannot change role of the Owner")
    ELSE Ok

ReadMembersResp(o, u) ==
    IF get_member_link(o, u) = None
    THEN Resp(403, "Not a member of this organization")
    ELSE Ok

-----------------------------------------------------------------------------
(* organizations/router.py: the handlers *)

leadVars == <<leads, leadCount, history>>

(* The request as `last` records it: who asked what, with the requester's  *)
(* role at the time of the request.                                        *)
Request(op, o, u, r) ==
    [op |-> op, org |-> o, user |-> u, role |-> get_member_link(o, u), resp |-> r]

CreateOrganization(u, name) ==
    LET r == CreateOrganizationResp(name)
        o == OrgIdSeq[orgCount + 1] IN
    /\ orgCount < Len(OrgIdSeq)
    /\ IF r = Ok
       THEN /\ create_organization_rows(o, name, u)
            /\ orgCount' = orgCount + 1
       ELSE UNCHANGED <<organizations, links, orgCount>>
    /\ last' = [op |-> "create_organization", org |-> o, user |-> u, role |-> None,
                resp |-> r]
    /\ UNCHANGED <<leadVars, issued, now, sessions>>

ReadOrganization(o, u) ==
    /\ last' = Request("read_organization", o, u, ReadOrganizationResp(o))
    /\ UNCHANGED <<organizations, orgCount, links, leadVars, issued, now, sessions>>

UpdateOrganization(o, u, update_data) ==
    LET r == UpdateOrganizationResp(o, u, update_data) IN
    /\ IF r = Ok
       THEN update_organization_rows(o, update_data)
       ELSE UNCHANGED organizations
    /\ last' = Request("update_organization", o, u, r)
    /\ UNCHANGED <<orgCount, links, leadVars, issued, now, sessions>>

DeleteOrganization(o, u, linksGo) ==
    LET r == DeleteOrganizationResp(o, u) IN
    /\ IF r = Ok
       THEN delete_organization_rows(o, linksGo)
       ELSE /\ linksGo
            /\ UNCHANGED <<organizations, links>>
    /\ last' = Request("delete_organization", o, u, r)
    /\ UNCHANGED <<orgCount, leadVars, issued, now, sessions>>

CreateInvitation(o, u, expiration_minutes) ==
    LET r == CreateInvitationResp(o, u)
        token == create_invitation_token(o, expiration_minutes) IN
    /\ r = Ok => (token \in issued \/ Cardinality(issued) < MaxTokens)
    /\ issued' = IF r = Ok THEN issued \cup {token} ELSE issued
    /\ last' = Request("create_invitation", o, u, r)
    /\ UNCHANGED <<organizations, orgCount, links, leadVars, now, sessions>>

JoinOrganization(u, token) ==
    LET r == JoinOrganizationResp(u, token)
        org_id == verify_invitation_token(token) IN
    /\ IF r = Resp(200, "Successfully joined organization")
       THEN add_member(org_id, u, "member")
       ELSE UNCHANGED links
    /\ last' = [op |-> "join_organization", org |-> org_id, user |-> u,
                role |-> IF org_id = None THEN None ELSE get_member_link(org_id, u),
                resp |-> r, token |-> token, at |-> now]
    /\ UNCHANGED <<organizations, orgCount, leadVars, issued, now, sessions>>

RemoveMember(o, u, target) ==
    LET r == RemoveMemberResp(o, u, target) IN
    /\ IF r = Ok THEN remove_member(o, target) ELSE UNCHANGED links
    /\ last' = Request("remove_member", o, u, r) @@
               [target |-> target, targetRole |-> get_member_link(o, target)]
    /\ UNCHANGED <<organizations, orgCount, leadVars, issued, now, sessions>>

UpdateMemberRole(o, u, target, role) ==
    LET r == UpdateMemberRoleResp(o, u, target, role) IN
    /\ IF r = Ok THEN update_member_role(o, target, role) ELSE UNCHANGED links
    /\ last' = Request("update_member_role", o, u, r) @@
               [target |-> target, targetRole |-> get_member_link(o, target),
                newRole |-> role]
    /\ UNCHANGED <<organizations, orgCount, leadVars, issued, now, sessions>>

ReadMembers(o, u) ==
    /\ last' = Request("read_members", o, u, ReadMembersResp(o, u))
    /\ UNCHANGED <<organizations, orgCount, links, leadVars, issued, now, sessions>>

(* Time passes *)
Tick ==
    /\ now < MaxTime
    /\ now' = now + 1
    /\ UNCHANGED <<organizations, orgCount, links, leadVars, issued, last, sessions>>

-----------------------------------------------------------------------------
(* leads/models.py, leads/schemas.py *)

(* class LeadStatus (the values the model exercises) *)
LeadStatuses == {"new", "qualified"}
LeadNames == {"Acme", "Bolt"}

(* The Lead row built from lead_create.model_dump(): the create payload    *)
(* with the defaults of LeadBase for the fields the caller did not set.    *)
LeadRow(o, lead_create) ==
    [organization_id |-> o,
     name |-> lead_create["name"],
     status |-> IF "status" \in DOMAIN lead_create THEN lead_create["status"] ELSE "new",
     assigned_to_id |-> IF "assigned_to_id" \in DOMAIN lead_create
                        THEN lead_create["assigned_to_id"] ELSE None,
     updated_at |-> now]

(* A dict column that is NULL *)
NoDict == <<>>

(* LeadHistory.old_value and new_value are JSON columns: the insert raises *)
(* TypeError on a value json.dumps cannot serialize, and a uuid.UUID is    *)
(* one (a str, a str-Enum member and None are not).                        *)
JsonSerializable(dict) == \A k \in DOMAIN dict : dict[k] \notin Users

-----------------------------------------------------------------------------
(* leads/service.py *)

(* A get_lead that selects by id alone *)
LeadFound_AnyOrg(l, o) == l \in DOMAIN leads

(* get_lead: the lead with that id in that organization, or nothing *)
LeadFound(l, o) == l \in DOMAIN leads /\ leads[l].organization_id = o

(* create_lead_history: one more row of leadhistory *)
create_lead_history(lead_id, action, performed_by_id, old_value, new_value) ==
    history' = Append(history,
        [lead_id |-> lead_id, action |-> action, performed_by_id |-> performed_by_id,
         old_value |-> old_value, new_value |-> new_value])

(* create_lead: the explicitly set fields, and the organization id as a string *)
provided_data(o, lead_create) == lead_create @@ ("organization_id" :> UuidStr(o))

(* A diff that takes every supplied key as changed *)
ChangedKeys_AllSupplied(db_lead, update_data) == DOMAIN update_data

(* update_lead: the keys of the payload whose value differs from the stored one *)
ChangedKeys(db_lead, update_data) ==
    {key \in DOMAIN update_data : db_lead[key] # update_data[key]}

(* An update that writes its history entry whatever the diff *)
HasChanges_Always(db_lead, update_data) == TRUE

(* update_lead: "if changes:" *)
HasChanges(db_lead, update_data) == ChangedKeys(db_lead, update_data) # {}

(* update_lead: a uuid.UUID is stored as its string *)
Stored(value) == IF value \in Users THEN UuidStr(value) ELSE value

changed_old(db_lead, update_data) ==
    [key \in ChangedKeys(db_lead, update_data) |-> Stored(db_lead[key])]

changed_new(db_lead, update_data) ==
    [key \in ChangedKeys(db_lead, update_data) |-> Stored(update_data[key])]

(* update_lead: the action of the history entry *)
HistoryAction(update_data) ==
    LET action == IF "assigned_to_id" \in DOMAIN update_data THEN "assigned" ELSE "updated" IN
    IF "status" \in DOMAIN update_data THEN "status_changed" ELSE action

(* update_lead: setattr for every changed key, and updated_at *)
UpdatedRow(db_lead, update_data) ==
    [key \in DOMAIN db_lead |->
        IF key = "updated_at" THEN now
        ELSE IF key \in ChangedKeys(db_lead, update_data) THEN update_data[key]
        ELSE db_lead[key]]

(* Lead.name and Lead.status are not nullable: the commit raises IntegrityError *)
RowRejected(row) == row.name = None \/ row.status = None

-----------------------------------------------------------------------------
(* leads/router.py: the response of each handler *)

(* get_org_link raises 403 when there is no link *)
NotAMember == Resp(403, "Not a member of this organization")

CreateLeadResp(o, u, lead_create) ==
    LET link == get_member_link(o, u) IN
    IF link = None THEN NotAMember
    ELSE IF link = "viewer" THEN Resp(403, "Viewers cannot create leads")
    ELSE IF /\ "assigned_to_id" \in DOMAIN lead_create
            /\ lead_create["assigned_to_id"] # None
            /\ get_member_link(o, lead_create["assigned_to_id"]) = None
    THEN Resp(400, "Assigned user is not a member of this organization")
    ELSE IF ~JsonSerializable(provided_data(o, lead_create)) THEN Resp(500, "TypeError")
    ELSE Ok

ReadLeadResp(o, u, l) ==
    IF get_member_link(o, u) = None THEN NotAMember
    ELSE IF ~LeadFound(l, o) THEN Resp(404, "Lead not found")
    ELSE Ok

UpdateLeadResp(o, u, l, update_data) ==
    LET link == get_member_link(o, u) IN
    IF link = None THEN NotAMember
    ELSE IF link = "viewer" THEN Resp(403, "Viewers cannot update leads")
    ELSE IF ~LeadFound(l, o) THEN Resp(404, "Lead not found")
    ELSE IF /\ "assigned_to_id" \in DOMAIN update_data
            /\ update_data["assigned_to_id"] # None
            /\ update_data["assigned_to_id"] # leads[l].assigned_to_id
            /\ link \notin {"owner", "admin"}
    THEN Resp(403, "Only Owners and Admins can assign leads")
    ELSE IF RowRejected(UpdatedRow(leads[l], update_data)) THEN IntegrityError
    ELSE Ok

DeleteLeadResp(o, u, l) ==
    LET link == get_member_link(o, u) IN
    IF link = None THEN NotAMember
    ELSE IF link \notin {"owner", "admin"}
    THEN Resp(403, "Only Owners and Admins can delete leads")
    ELSE IF ~LeadFound(l, o) THEN Resp(404, "Lead not found")
    ELSE Ok

LeadHistoryResp(o, u) ==
    IF get_member_link(o, u) = None THEN NotAMember ELSE Ok

-----------------------------------------------------------------------------
(* leads/router.py: the handlers *)

orgVars == <<organizations, orgCount, links, issued>>

CreateLead(o, u, lead_create) ==
    LET r == CreateLeadResp(o, u, lead_create)
        l == LeadIdSeq[leadCount + 1] IN
    /\ leadCount < MaxLeads
    /\ Len(history) < MaxHistory
    /\ IF r \in {Ok, Resp(500, "TypeError")}
       THEN /\ leads' = leads @@ (l :> LeadRow(o, lead_create))
            /\ leadCount' = leadCount + 1
       ELSE UNCHANGED <<leads, leadCount>>
    /\ IF r = Ok
       THEN create_lead_history(l, "created", u, NoDict, provided_data(o, lead_create))
       ELSE UNCHANGED history
    /\ last' = Request("create_lead", o, u, r) @@
               [lead |-> l, set |-> DOMAIN lead_create, assignee |-> LeadRow(o, lead_create).assigned_to_id]
    /\ UNCHANGED <<orgVars, now, sessions>>

ReadLead(o, u, l) ==
    /\ last' = Request("read_lead", o, u, ReadLeadResp(o, u, l)) @@ [lead |-> l]
    /\ UNCHANGED <<orgVars, leadVars, now, sessions>>

UpdateLead(o, u, l, update_data) ==
    LET r == UpdateLeadResp(o, u, l, update_data) IN
    /\ Len(history) < MaxHistory
    /\ IF r = Ok
       THEN /\ leads' = [leads EXCEPT ![l] = UpdatedRow(leads[l], update_data)]
            /\ IF HasChanges(leads[l], update_data)
               THEN create_lead_history(l, HistoryAction(update_data), u,
                                        changed_old(leads[l], update_data),
                                        changed_new(leads[l], update_data))
               ELSE UNCHANGED history
       ELSE UNCHANGED <<leads, history>>
    /\ last' = Request("update_lead", o, u, r) @@
               [lead |-> l, found |-> LeadFound(l, o), set |-> DOMAIN update_data,
                changed |-> IF LeadFound(l, o)
                            THEN ChangedKeys(leads[l], update_data) ELSE {}]
    /\ UNCHANGED <<orgVars, leadCount, now, sessions>>

(* A delete_lead that takes the history rows of the lead with it *)
DeleteLead_WithHistory(o, u, l) ==
    LET r == DeleteLeadResp(o, u, l) IN
    /\ IF r = Ok
       THEN /\ leads' = Without(leads, l)
            /\ history' = SelectSeq(history, LAMBDA h : h.lead_id # l)
       ELSE UNCHANGED <<leads, history>>
    /\ last' = Request("delete_lead", o, u, r) @@ [lead |-> l, found |-> LeadFound(l, o)]
    /\ UNCHANGED <<orgVars, leadCount, now, sessions>>

DeleteLead(o, u, l) ==
    LET r == DeleteLeadResp(o, u, l) IN
    /\ IF r = Ok THEN leads' = Without(leads, l) ELSE UNCHANGED leads
    /\ last' = Request("delete_lead", o, u, r) @@ [lead |-> l, found |-> LeadFound(l, o)]
    /\ UNCHANGED <<orgVars, leadCount, history, now, sessions>>

(* get_lead_history: the rows of the lead, newest first, or nothing when   *)
(* the lead is not one of the organization                                 *)
Reverse(seq) == [i \in 1..Len(seq) |-> seq[Len(seq) + 1 - i]]

get_lead_history(l, o) ==
    IF LeadFound(l, o)
    THEN Reverse(SelectSeq(history, LAMBDA h : h.lead_id = l))
    ELSE <<>>

GetLeadHistory(o, u, l) ==
    LET r == LeadHistoryResp(o, u) IN
    /\ last' = Request("get_lead_history", o, u, r) @@
               [lead |-> l, rows |-> IF r = Ok THEN get_lead_history(l, o) ELSE <<>>]
    /\ UNCHANGED <<orgVars, leadVars, now, sessions>>

-----------------------------------------------------------------------------
(* The inputs of the requests *)

(* The tokens a join request may carry: the invitations the server issued, *)
(* the same with the signature or payload tampered with (so the signature  *)
(* no longer verifies), and the requester's own session token, which the   *)
(* server signed with the same key and which is not expired (the request   *)
(* was authenticated with it).                                             *)
SessionToken == Token("user@example.com", Unset, now, "valid")
JoinTokens ==
    issued \cup {[t EXCEPT !.sig = "invalid"] : t \in issued} \cup {SessionToken}

(* The lead ids a request path may name *)
PathLeads == {LeadIdSeq[i] : i \in 1..MaxLeads}

(* A partial payload: each key either unset or set to one of its values *)
Opt(key, values) == {<<>>} \cup {(key :> v) : v \in values}

OrgUpdates == Opt("name", OrgNames \cup {None})

(* The users a payload names as assignee: u2 is a member of o1, u3 is not *)
Assignees == {"u2", "u3"}

(* LeadCreate: name is required; a lead is created under the first name *)
LeadCreates ==
    {("name" :> "Acme") @@ s @@ a :
        s \in Opt("status", LeadStatuses),
        a \in Opt("assigned_to_id", Assignees \cup {None})}

(* LeadUpdate: every field is optional and may be null *)
LeadUpdates ==
    {n @@ s @@ a :
        n \in Opt("name", LeadNames \cup {None}),
        s \in Opt("status", LeadStatuses),
        a \in Opt("assigned_to_id", Assignees \cup {None})}

-----------------------------------------------------------------------------
(* The specifications *)

Init ==
    /\ organizations = <<>>
    /\ orgCount = 0
    /\ links = [k \in OrgIds \X Users |-> None]
    /\ leads = <<>>
    /\ leadCount = 0
    /\ history = <<>>
    /\ issued = {}
    /\ now = 0
    /\ last = NoRequest
    /\ sessions = NoSessions

(* The requests on organizations and members addressed to the organizations *)
(* `orgs`; a new organization gets the next id, when that is one of `orgs`.  *)
OrgNext(orgs) ==
    \/ \E u \in Users, n \in OrgNames :
          orgCount < Len(OrgIdSeq) /\ OrgIdSeq[orgCount + 1] \in orgs /\ CreateOrganization(u, n)
    \/ \E o \in orgs, u \in Users : ReadOrganization(o, u)
    \/ \E o \in orgs, u \in Users, d \in OrgUpdates : UpdateOrganization(o, u, d)
    \/ \E o \in orgs, u \in Users, c \in BOOLEAN : DeleteOrganization(o, u, c)
    \/ \E o \in orgs, u \in Users, m \in 0..MaxTtl : CreateInvitation(o, u, m)
    \/ \E u \in Users, t \in JoinTokens : JoinOrganization(u, t)
    \/ \E o \in orgs, u \in Users, t \in Users : RemoveMember(o, u, t)
    \/ \E o \in orgs, u \in Users, t \in Users, r \in Roles : UpdateMemberRole(o, u, t, r)
    \/ \E o \in orgs, u \in Users : ReadMembers(o, u)

(* The requests that write the leads of the organizations `orgs` *)
LeadWrites(orgs) ==
    \/ \E o \in orgs, u \in Users, c \in LeadCreates : CreateLead(o, u, c)
    \/ \E o \in orgs, u \in Users, l \in PathLeads, d \in LeadUpdates : UpdateLead(o, u, l, d)
    \/ \E o \in orgs, u \in Users, l \in PathLeads : DeleteLead(o, u, l)

(* The requests that read them *)
LeadReads(orgs) ==
    \/ \E o \in orgs, u \in Users, l \in PathLeads : ReadLead(o, u, l)
    \/ \E o \in orgs, u \in Users, l \in PathLeads : GetLeadHistory(o, u, l)

(* The whole backend *)
Next == OrgNext(OrgIds) \/ LeadWrites(OrgIds) \/ LeadReads(OrgIds) \/ Tick

Spec == Init /\ [][Next]_vars

(* The organization and member requests of one organization, the clock     *)
(* stopped.  Organizations share no row; only the uniqueness of their      *)
(* names couples them.                                                     *)
SpecOrg == Init /\ [][OrgNext({OrgIdSeq[1]})]_vars

(* Invitations over time: one organization is created, its Owner or Admins *)
(* invite, users join and are removed, and the clock advances.             *)
InviteNext ==
    \/ \E u \in Users, n \in OrgNames : orgCount = 0 /\ CreateOrganization(u, n)
    \/ \E o \in OrgIds, u \in Users, m \in 0..MaxTtl : CreateInvitation(o, u, m)
    \/ \E u \in Users, t \in JoinTokens : JoinOrganization(u, t)
    \/ \E o \in OrgIds, u \in Users, t \in Users : RemoveMember(o, u, t)
    \/ Tick

SpecInvite == Init /\ [][InviteNext]_vars

(* The writes of the leads of one organization, from a state the organization   *)
(* requests lead to: u1 created o1, u2 joined it and kept the role Member  *)
(* or was given another by u1, and u3 is no member of it.                  *)
LeadInit ==
    /\ organizations = ("o1" :> [name |-> "Owner Corp"])
    /\ orgCount = 1
    /\ \E r \in {"admin", "member", "viewer"} :
          links = [k \in OrgIds \X Users |->
                      IF k = <<"o1", "u1">> THEN "owner"
                      ELSE IF k = <<"o1", "u2">> THEN r
                      ELSE None]
    /\ leads = <<>>
    /\ leadCount = 0
    /\ history = <<>>
    /\ issued = {}
    /\ now = 0
    /\ last = NoRequest
    /\ sessions = NoSessions

SpecLead == LeadInit /\ [][LeadWrites({OrgIdSeq[1]})]_vars

-----------------------------------------------------------------------------
(* Properties of the lead requests (SpecLead) *)

CanWrite == {"owner", "admin", "member"}
CanDelete == {"owner", "admin"}

(* The fields of a lead a payload can set *)
LeadFields == {"name", "status", "assigned_to_id"}

KeepsAssignee(l, update_data) ==
    "assigned_to_id" \in DOMAIN update_data
        => update_data["assigned_to_id"] = leads[l].assigned_to_id

NullsRequired(update_data) ==
    \E k \in DOMAIN update_data \cap {"name", "status"} : update_data[k] = None

(* C1: for every role r of the requester, a create-lead request (naming no *)
(* assignee, or one who is a member of the organization) and an            *)
(* update-lead request on an existing lead that does not change the        *)
(* assignee and nulls no required field succeed iff r is Owner, Admin or   *)
(* Member (a Viewer gets 403), and a delete-lead request on an existing    *)
(* lead of the organization succeeds iff r is Owner or Admin (a Member or  *)
(* Viewer gets 403).                                                       *)
C1_RoleGating ==
    /\ (/\ last.op = "create_lead"
        /\ last.role # None
        /\ last.assignee # None => get_member_link(last.org, last.assignee) # None)
          => /\ last.resp = Ok <=> last.role \in CanWrite
             /\ last.role = "viewer" => last.resp.status = 403
    /\ \A o \in OrgIds, u \in Users :
        LET r == get_member_link(o, u) IN
        r # None =>
            /\ \A l \in PathLeads, d \in LeadUpdates :
                  (LeadFound(l, o) /\ KeepsAssignee(l, d) /\ ~NullsRequired(d)) =>
                      /\ UpdateLeadResp(o, u, l, d) = Ok <=> r \in CanWrite
                      /\ r = "viewer" => UpdateLeadResp(o, u, l, d).status = 403
            /\ \A l \in PathLeads :
                  LeadFound(l, o) =>
                      /\ DeleteLeadResp(o, u, l) = Ok <=> r \in CanDelete
                      /\ r \notin CanDelete => DeleteLeadResp(o, u, l).status = 403

(* The Owner's create-lead request naming a member as assignee failed, the *)
(* lead is stored and no history entry was written                         *)
C1_Witness ==
    /\ last.op = "create_lead"
    /\ last.role = "owner"
    /\ last.assignee # None
    /\ get_member_link(last.org, last.assignee) # None
    /\ last.resp.status = 500
    /\ LeadFound(last.lead, last.org)
    /\ history = <<>>

(* C2: an update-lead request by a Member or Viewer leaves assigned_to of  *)
(* every lead as it was, whether the payload sets, replaces or clears it.  *)
C2_AssigneeKept ==
    [][(last'.op = "update_lead" /\ last'.role \in {"member", "viewer"}) =>
          \A l \in DOMAIN leads :
              l \in DOMAIN leads' /\ leads'[l].assigned_to_id = leads[l].assigned_to_id]_vars

(* C7: the history entry of an update holds, in old_value and new_value,   *)
(* exactly the fields whose stored value the update changed, with the      *)
(* value before and the value after, and these are the keys of the payload *)
(* whose value differed from the stored one; when only status changed the  *)
(* entry is {status: previous} -> {status: supplied}, tagged               *)
(* status_changed.                                                          *)
C7_HistorySparsity ==
    [][(last'.op = "update_lead" /\ last'.resp = Ok) =>
          LET l == last'.lead
              diff == {k \in LeadFields : leads'[l][k] # leads[l][k]} IN
          /\ last'.changed = diff
          /\ diff # {} =>
                /\ Len(history') = Len(history) + 1
                /\ SubSeq(history', 1, Len(history)) = history
                /\ LET h == history'[Len(history')] IN
                   /\ h.lead_id = l
                   /\ DOMAIN h.old_value = diff
                   /\ DOMAIN h.new_value = diff
                   /\ \A k \in diff :
                         /\ h.old_value[k] = Stored(leads[l][k])
                         /\ h.new_value[k] = Stored(leads'[l][k])
                   /\ diff = {"status"} => h.action = "status_changed"]_vars

(* An update supplied name and status, only status differed, and the entry *)
(* holds status alone                                                      *)
C7_Witness ==
    /\ last.op = "update_lead"
    /\ last.resp = Ok
    /\ last.set = {"name", "status"}
    /\ last.changed = {"status"}
    /\ Len(history) = 2
    /\ history[2].action = "status_changed"
    /\ DOMAIN history[2].new_value = {"status"}
    /\ DOMAIN history[2].old_value = {"status"}

(* C8: an update that changes both status and assigned_to records an entry *)
(* tagged assigned.                                                        *)
C8_AssignedPrecedence ==
    (/\ last.op = "update_lead"
     /\ last.resp = Ok
     /\ {"status", "assigned_to_id"} \subseteq last.changed)
        => history[Len(history)].action = "assigned"

(* C9: an update of an existing lead whose payload values all equal the    *)
(* stored ones (no field of the lead changes) writes no history entry: the *)
(* history is the same before and after the call                           *)
C9_NoOpUpdate ==
    [][(/\ last'.op = "update_lead"
        /\ last'.found
        /\ \A k \in LeadFields : leads'[last'.lead][k] = leads[last'.lead][k])
          => history' = history]_vars

(* An update supplied all three fields with their stored values: only the  *)
(* entry of the creation is there                                          *)
C9_Witness ==
    /\ last.op = "update_lead"
    /\ last.resp = Ok
    /\ last.set = LeadFields
    /\ last.changed = {}
    /\ Len(history) = 1
    /\ history[1].action = "created"

-----------------------------------------------------------------------------
(* Properties of the organization and member requests (SpecOrg) *)

Managers == {"owner", "admin"}

(* C3: update-organization and create-invitation succeed only for a        *)
(* requester whose role in the organization is Owner or Admin, and         *)
(* delete-organization only for an Owner; any other requester, member or   *)
(* not, gets 403 and the organization, its members and its invitations are *)
(* left as they were; after a successful delete a read of the organization *)
(* returns 404.                                                            *)
C3_OrgGating ==
    [][/\ last'.op \in {"update_organization", "create_invitation"} =>
            /\ last'.resp.status = 200 => last'.role \in Managers
            /\ last'.role \notin Managers =>
                  /\ last'.resp.status = 403
                  /\ UNCHANGED <<organizations, links, issued>>
       /\ last'.op = "delete_organization" =>
            /\ last'.resp.status = 200 =>
                  /\ last'.role = "owner"
                  /\ (ReadOrganizationResp(last.org))'.status = 404
            /\ last'.role # "owner" =>
                  /\ last'.resp.status = 403
                  /\ UNCHANGED <<organizations, links, issued>>]_vars

(* The Owner deleted the organization and a read of it finds nothing *)
C3_Witness ==
    /\ last.op = "delete_organization"
    /\ last.role = "owner"
    /\ last.resp.status = 200
    /\ last.org \notin DOMAIN organizations
    /\ ReadOrganizationResp(last.org).status = 404

(* C4: a remove-member or change-role request is denied unless the         *)
(* requester is Owner or Admin; an Admin is denied when the target is      *)
(* Owner or Admin, and when the role asked for is Owner or Admin; every    *)
(* denial leaves the memberships and roles as they were.                   *)
C4_MemberGating ==
    [][last'.op \in {"remove_member", "update_member_role"} =>
          LET denied == last'.resp.status # 200 IN
          /\ last'.role \notin Managers => last'.resp.status = 403
          /\ (last'.role = "admin" /\ last'.targetRole \in Managers) =>
                last'.resp.status = 403
          /\ (/\ last'.op = "update_member_role"
              /\ last'.role = "admin"
              /\ last'.newRole \in Managers) => denied
          /\ denied => links' = links]_vars

(* An Admin asked to make a Member an Admin, was refused, and the Member   *)
(* is still a Member                                                       *)
C4_Witness ==
    /\ last.op = "update_member_role"
    /\ last.role = "admin"
    /\ last.targetRole = "member"
    /\ last.newRole = "admin"
    /\ last.resp.status = 403
    /\ get_member_link(last.org, last.target) = "member"

(* C5: a remove-member or change-role request leaves every Owner an Owner, *)
(* whoever makes it, and one made by an Admin makes nobody an Owner.       *)
C5_OwnerImmutable ==
    [][last'.op \in {"remove_member", "update_member_role"} =>
          /\ \A k \in DOMAIN links : links[k] = "owner" => links'[k] = "owner"
          /\ last'.role = "admin" =>
                \A k \in DOMAIN links : links'[k] = "owner" => links[k] = "owner"]_vars

(* An Owner asked to remove another Owner, was refused, and the other is   *)
(* still an Owner                                                          *)
C5_Witness ==
    /\ last.op = "remove_member"
    /\ last.role = "owner"
    /\ last.target # last.user
    /\ last.targetRole = "owner"
    /\ last.resp.status = 400
    /\ get_member_link(last.org, last.target) = "owner"

(* The roles that do not suffice for a request on the organization *)
Insufficient(op) ==
    IF op = "delete_organization" THEN Roles \ {"owner"} ELSE Roles \ Managers

-----------------------------------------------------------------------------
(* Properties of the invitations (SpecInvite) *)

(* The tokens a client can present: any subject, any org_id claim that is  *)
(* absent or a string, any expiry, a signature that verifies or not.       *)
TokenShapes ==
    [sub : {"invitation", "user@example.com"},
     org_id : {Unset, "", "not-a-uuid"} \cup {UuidStr(o) : o \in OrgIds},
     exp : 0..(MaxTime + MaxTtl),
     sig : {"valid", "invalid"}]

-----------------------------------------------------------------------------
(* Properties of the join flow (SpecOrg) *)

(* C11: a join request with a token that verifies to an existing           *)
(* organization, by a user without membership there, succeeds and makes    *)
(* that user a Member of that organization, every other membership         *)
(* unchanged; by a user who has a membership there it succeeds and leaves  *)
(* every membership and role as it was.                                    *)
C11_JoinFlow ==
    [][(/\ last'.op = "join_organization"
        /\ last'.org # None
        /\ last'.org \in DOMAIN organizations) =>
          /\ last'.resp.status = 200
          /\ IF last'.role = None
             THEN links' = [links EXCEPT ![<<last'.org, last'.user>>] = "member"]
             ELSE links' = links]_vars

(* A Viewer presented a valid invitation of the organization, the request  *)
(* succeeded, and the Viewer is still a Viewer                             *)
C11_Witness ==
    /\ last.op = "join_organization"
    /\ last.org \in DOMAIN organizations
    /\ last.role = "viewer"
    /\ last.resp.status = 200
    /\ get_member_link(last.org, last.user) = "viewer"
    /\ \E v \in Users : v # last.user /\ get_member_link(last.org, v) = "member"

-----------------------------------------------------------------------------
(* Leads of two organizations (SpecScope) *)

(* u1 created o1; o2 was created by u1 or by u2; u3 is a member of neither. *)
ScopeInit ==
    /\ organizations = ("o1" :> [name |-> "Owner Corp"]) @@ ("o2" :> [name |-> "Mega Corp"])
    /\ orgCount = 2
    /\ \E creator \in {"u1", "u2"} :
          links = [k \in OrgIds \X Users |->
                      IF k = <<"o1", "u1">> \/ k = <<"o2", creator>> THEN "owner" ELSE None]
    /\ leads = <<>>
    /\ leadCount = 0
    /\ history = <<>>
    /\ issued = {}
    /\ now = 0
    /\ last = NoRequest
    /\ sessions = NoSessions

(* The payloads of these requests name no assignee and null nothing *)
ScopeCreates == {c \in LeadCreates : "assigned_to_id" \notin DOMAIN c}
ScopeUpdates ==
    {d \in LeadUpdates : "assigned_to_id" \notin DOMAIN d /\ \A k \in DOMAIN d : d[k] # None}

ScopeNext ==
    \/ \E o \in OrgIds, u \in Users, c \in ScopeCreates : CreateLead(o, u, c)
    \/ \E o \in OrgIds, u \in Users, l \in PathLeads, d \in ScopeUpdates : UpdateLead(o, u, l, d)
    \/ \E o \in OrgIds, u \in Users, l \in PathLeads : DeleteLead(o, u, l)
    \/ \E o \in OrgIds, u \in Users, l \in PathLeads : ReadLead(o, u, l)
    \/ \E o \in OrgIds, u \in Users, l \in PathLeads : GetLeadHistory(o, u, l)

SpecScope == ScopeInit /\ [][ScopeNext]_vars

(* C12: get_lead(l, A) finds nothing for a lead l that exists in another   *)
(* organization B; a read, update or delete of l addressed through A is    *)
(* refused (404, or 403 for a requester the role check stops first), a     *)
(* history request through A returns no row, and none of them changes any  *)
(* lead or any history entry.                                              *)
C12_OrgScoping ==
    /\ [](\A l \in DOMAIN leads, A \in OrgIds :
              leads[l].organization_id # A => ~LeadFound(l, A))
    /\ [][(/\ last'.op \in {"read_lead", "update_lead", "delete_lead", "get_lead_history"}
           /\ last'.lead \in DOMAIN leads
           /\ leads[last'.lead].organization_id # last'.org) =>
             /\ last'.op # "get_lead_history" => last'.resp.status \in {403, 404}
             /\ (last'.op # "get_lead_history" /\ last'.role \in {"owner", "admin"}) =>
                   last'.resp.status = 404
             /\ last'.op = "get_lead_history" => last'.rows = <<>>
             /\ leads' = leads
             /\ history' = history]_vars

(* The Owner of o1 asked to update, through o1, a lead that exists in o2,  *)
(* got 404, and the lead and its history are there                         *)
C12_Witness ==
    /\ last.op = "update_lead"
    /\ last.org = "o1"
    /\ last.role = "owner"
    /\ last.set # {}
    /\ last.resp.status = 404
    /\ last.lead \in DOMAIN leads
    /\ leads[last.lead].organization_id = "o2"
    /\ \E i \in 1..Len(history) : history[i].lead_id = last.lead

-----------------------------------------------------------------------------
(* Properties of the history of a creation (SpecLead) *)

(* C13: a create-lead request that stores a lead writes exactly one        *)
(* history entry, tagged created, for that lead, whose new_value holds     *)
(* exactly the fields the payload set (next to the organization id of the  *)
(* request path) and whose old_value is empty.                             *)
C13_CreatedEntry ==
    [][(last'.op = "create_lead" /\ last'.lead \in DOMAIN leads' \ DOMAIN leads) =>
          /\ Len(history') = Len(history) + 1
          /\ SubSeq(history', 1, Len(history)) = history
          /\ LET h == history'[Len(history')] IN
             /\ h.action = "created"
             /\ h.lead_id = last'.lead
             /\ h.old_value = NoDict
             /\ DOMAIN h.new_value \ {"organization_id"} = last'.set]_vars

-----------------------------------------------------------------------------
(* Organizations created one after the other (SpecCreate) *)

(* Users create, rename and delete organizations, invite and join; the     *)
(* clock stands still, so one time to live stands for all.                 *)
CreateNext ==
    \/ \E u \in Users, n \in OrgNames : CreateOrganization(u, n)
    \/ \E o \in OrgIds, u \in Users, d \in OrgUpdates : UpdateOrganization(o, u, d)
    \/ \E o \in OrgIds, u \in Users, c \in BOOLEAN : DeleteOrganization(o, u, c)
    \/ \E o \in OrgIds, u \in Users : CreateInvitation(o, u, MaxTtl)
    \/ \E u \in Users, t \in JoinTokens : JoinOrganization(u, t)

SpecCreate == Init /\ [][CreateNext]_vars

(* C14: after a successful create-organization request by X the new       *)
(* organization exists, X is its Owner, nobody else has a membership in    *)
(* it, and the memberships of the other organizations are as they were.    *)
C14_CreatorIsOnlyOwner ==
    [][(last'.op = "create_organization" /\ last'.resp.status = 200) =>
          /\ last'.org \notin DOMAIN organizations
          /\ last'.org \in DOMAIN organizations'
          /\ \A k \in DOMAIN links :
                links'[k] = IF k[1] # last'.org THEN links[k]
                            ELSE IF k[2] = last'.user THEN "owner"
                            ELSE None]_vars

(* A second organization was created while the first has two members: its  *)
(* creator is its Owner and its only member                                *)
C14_Witness ==
    /\ last.op = "create_organization"
    /\ last.resp.status = 200
    /\ last.org = "o2"
    /\ get_member_link("o2", last.user) = "owner"
    /\ Cardinality({u \in Users : get_member_link("o2", u) # None}) = 1
    /\ Cardinality({u \in Users : get_member_link("o1", u) # None}) = 2

-----------------------------------------------------------------------------
(* Properties of the history tag (SpecLead) *)

(* The tag the changed fields call for *)
TagOfDiff(changed) ==
    IF "assigned_to_id" \in changed THEN "assigned"
    ELSE IF "status" \in changed THEN "status_changed"
    ELSE "updated"

(* C15: the entry of an update is tagged by the fields that changed:       *)
(* assigned when the assignee changed, else status_changed when the status *)
(* changed, else updated, whatever unchanged fields the payload repeats.   *)
(* (Updates that change both the assignee and the status are the subject   *)
(* of C8 and are left out here.)                                           *)
C15_TagFromDiff ==
    (/\ last.op = "update_lead"
     /\ last.resp = Ok
     /\ last.changed # {}
     /\ ~({"status", "assigned_to_id"} \subseteq last.changed))
        => history[Len(history)].action = TagOfDiff(last.changed)

-----------------------------------------------------------------------------
(* Properties of the lead rows against their history (SpecLead) *)

(* The indices of the history entries of lead l that record a value of k *)
Recorded(l, k) ==
    {i \in 1..Len(history) : history[i].lead_id = l /\ k \in DOMAIN history[i].new_value}

(* The value of field k of lead l according to the history: the new value  *)
(* of the last entry that records k, or the default of Lead when none does *)
Audited(l, k) ==
    IF Recorded(l, k) # {}
    THEN history[CHOOSE i \in Recorded(l, k) : \A j \in Recorded(l, k) : j <= i].new_value[k]
    ELSE IF k = "status" THEN "new" ELSE None

(* C16: in every state, every stored lead has its created entry, and every *)
(* field of it has the value its history accounts for: no creation and no  *)
(* field change is in the store without its history entry.                 *)
C16_MutationWithHistory ==
    \A l \in DOMAIN leads :
        /\ \E i \in 1..Len(history) :
              history[i].lead_id = l /\ history[i].action = "created"
        /\ \A k \in LeadFields : Stored(leads[l][k]) = Audited(l, k)

(* A creation answered 500 whose lead is stored and has no history at all *)
C16_Witness ==
    /\ last.op = "create_lead"
    /\ last.resp.status = 500
    /\ last.lead \in DOMAIN leads
    /\ \A i \in 1..Len(history) : history[i].lead_id # last.lead

-----------------------------------------------------------------------------
(* Membership changes followed by requests (SpecAuth) *)

(* One organization with its Owner u1, a member u2 who joined with the     *)
(* invitation u1 issued, and u3 who holds the invitation and has not used  *)
(* it; the clock is stopped, so the invitation stays valid.                *)
AuthInit ==
    /\ organizations = ("o1" :> [name |-> "Owner Corp"])
    /\ orgCount = 1
    /\ \E r \in {"admin", "member", "viewer"} :
          links = [k \in OrgIds \X Users |->
                      IF k = <<"o1", "u1">> THEN "owner"
                      ELSE IF k = <<"o1", "u2">> THEN r
                      ELSE None]
    /\ leads = <<>>
    /\ leadCount = 0
    /\ history = <<>>
    /\ issued = {Token("invitation", UuidStr("o1"), 0, "valid")}
    /\ now = 0
    /\ last = NoRequest
    /\ sessions = NoSessions

(* The payloads of the lead and organization requests in SpecAuth *)
AuthCreates == {("name" :> "Acme")}
AuthUpdates == {("name" :> "Bolt")}
AuthOrgUpdates == {<<>>, ("name" :> "Mega Corp")}

AuthNext ==
    \/ \E u \in Users, t \in Users : RemoveMember("o1", u, t)
    \/ \E u \in Users, t \in Users, r \in Roles : UpdateMemberRole("o1", u, t, r)
    \/ \E u \in Users, t \in issued : JoinOrganization(u, t)
    \/ \E u \in Users : ReadOrganization("o1", u)
    \/ \E u \in Users, d \in AuthOrgUpdates : UpdateOrganization("o1", u, d)
    \/ \E u \in Users : DeleteOrganization("o1", u, TRUE)
    \/ \E u \in Users : CreateInvitation("o1", u, 0)
    \/ \E u \in Users : ReadMembers("o1", u)
    \/ \E u \in Users, c \in AuthCreates : CreateLead("o1", u, c)
    \/ \E u \in Users, l \in PathLeads, d \in AuthUpdates : UpdateLead("o1", u, l, d)
    \/ \E u \in Users, l \in PathLeads : DeleteLead("o1", u, l)
    \/ \E u \in Users, l \in PathLeads : ReadLead("o1", u, l)
    \/ \E u \in Users, l \in PathLeads : GetLeadHistory("o1", u, l)

SpecAuth == AuthInit /\ [][AuthNext]_vars

(* The requests the authorization policy gates, with the roles it lets through *)
GatedOps ==
    {"create_lead", "update_lead", "delete_lead", "read_lead", "get_lead_history",
     "update_organization", "delete_organization", "create_invitation",
     "remove_member", "update_member_role", "read_members"}

LetThrough(op) ==
    IF op \in {"create_lead", "update_lead"} THEN CanWrite
    ELSE IF op \in {"read_lead", "get_lead_history", "read_members"} THEN Roles
    ELSE IF op = "delete_organization" THEN {"owner"}
    ELSE Managers

(* Every gated request user u could send on organization o is denied *)
AllGatedDenied(o, u) ==
    /\ \A c \in AuthCreates : CreateLeadResp(o, u, c).status = 403
    /\ \A l \in PathLeads, d \in AuthUpdates : UpdateLeadResp(o, u, l, d).status = 403
    /\ \A l \in PathLeads : /\ DeleteLeadResp(o, u, l).status = 403
                            /\ ReadLeadResp(o, u, l).status = 403
    /\ LeadHistoryResp(o, u).status = 403
    /\ \A d \in AuthOrgUpdates : UpdateOrganizationResp(o, u, d).status = 403
    /\ DeleteOrganizationResp(o, u).status = 403
    /\ CreateInvitationResp(o, u).status = 403
    /\ ReadMembersResp(o, u).status = 403
    /\ \A t \in Users : RemoveMemberResp(o, u, t).status = 403
    /\ \A t \in Users, r \in Roles : UpdateMemberRoleResp(o, u, t, r).status = 403

(* The store a request may write *)
store == <<organizations, links, leads, history, issued>>

(* C17, as stated: a removal leaves its target denied on every request on  *)
(* the organization, reading the organization and joining it included.     *)
C17_AllDeniedAfterRemoval ==
    [][\A o \in OrgIds, u \in Users :
          (/\ last'.op = "remove_member" /\ last'.resp = Ok
           /\ last'.org = o /\ last'.target = u) =>
             /\ AllGatedDenied(o, u)'
             /\ (ReadOrganizationResp(o).status # 200)'
             /\ (\A t \in issued : JoinOrganizationResp(u, t).status # 200)']_vars

(* C17, amended: a removal deletes the target's link and leaves the target *)
(* denied (403) on every request the policy gates; a role change stores    *)
(* the new role; and every gated request is decided by the link stored     *)
(* when it arrives: no link or a role the policy does not let through is   *)
(* answered 403 and writes nothing, and an Owner is never answered 403.    *)
C17_DecidedAtRequest ==
    /\ [][\A o \in OrgIds, u \in Users :
             (/\ last'.op = "remove_member" /\ last'.resp = Ok
              /\ last'.org = o /\ last'.target = u) =>
                /\ links'[<<o, u>>] = None
                /\ AllGatedDenied(o, u)']_vars
    /\ [][(last'.op = "update_member_role" /\ last'.resp = Ok) =>
             links'[<<last'.org, last'.target>>] = last'.newRole]_vars
    /\ [][(last' # last /\ last'.op \in GatedOps) =>
             LET role == links[<<last'.org, last'.user>>] IN
             /\ role \notin LetThrough(last'.op) =>
                   last'.resp.status = 403 /\ UNCHANGED store
             /\ role = "owner" => last'.resp.status # 403]_vars

(* u2, removed from o1 earlier and never back, asks for a lead of o1 and is *)
(* answered 403 while the organization and the lead are still there.       *)
C17_Witness ==
    /\ last.op = "read_lead"
    /\ last.user = "u2"
    /\ last.role = None
    /\ last.resp.status = 403
    /\ last.org \in DOMAIN organizations
    /\ last.lead \in DOMAIN leads

-----------------------------------------------------------------------------
(* update_lead in steps (leads/router.py, leads/service.py) *)

(* router.update_lead up to the call of the service: the checks of the     *)
(* handler, on the link and the lead it selects                            *)
UpdateLeadChecks(o, u, l, update_data) ==
    LET link == get_member_link(o, u) IN
    IF link = None THEN NotAMember
    ELSE IF link = "viewer" THEN Resp(403, "Viewers cannot update leads")
    ELSE IF ~LeadFound(l, o) THEN Resp(404, "Lead not found")
    ELSE IF /\ "assigned_to_id" \in DOMAIN update_data
            /\ update_data["assigned_to_id"] # None
            /\ update_data["assigned_to_id"] # leads[l].assigned_to_id
            /\ link \notin {"owner", "admin"}
    THEN Resp(403, "Only Owners and Admins can assign leads")
    ELSE Ok

(* A finished request and its response *)
Done(q, r) == [q EXCEPT !.pc = "done"] @@ [resp |-> r]

(* How many updates have committed their lead so far *)
Commits == Cardinality({t \in Sessions : "order" \in DOMAIN sessions[t]})

(* The request arrives: the handler selects the link and the lead, which   *)
(* stays in its Session as db_lead, and makes its checks.                  *)
UpdateLeadBegin(s, o, u, l, update_data) ==
    LET r == UpdateLeadChecks(o, u, l, update_data)
        q == [pc |-> "loaded", op |-> "update_lead", org |-> o, user |-> u,
              lead |-> l, update_data |-> update_data] IN
    /\ sessions[s] = Idle
    /\ sessions' = [sessions EXCEPT ![s] =
                       IF r = Ok THEN q @@ [db_lead |-> leads[l]] ELSE Done(q, r)]
    /\ UNCHANGED <<orgVars, leadVars, now, last>>

(* service.update_lead, session.commit(): the UPDATE sets the attributes   *)
(* that setattr changed on db_lead, and updated_at, in the row as it is    *)
(* stored by then.                                                         *)
CommittedRow(row, db_lead, update_data) ==
    [key \in DOMAIN row |->
        IF key \in ChangedKeys(db_lead, update_data) \cup {"updated_at"}
        THEN UpdatedRow(db_lead, update_data)[key]
        ELSE row[key]]

(* A commit with a compare-and-swap: it is refused when the stored row is  *)
(* no longer the one that was loaded                                       *)
UpdateLeadCommit_CompareAndSwap(s) ==
    LET q == sessions[s] IN
    /\ q.pc = "loaded"
    /\ q.op = "update_lead"
    /\ q.lead \in DOMAIN leads
    /\ IF leads[q.lead] # q.db_lead
       THEN /\ sessions' = [sessions EXCEPT ![s] = Done(q, Resp(409, "Conflict"))]
            /\ UNCHANGED leads
       ELSE /\ leads' = [leads EXCEPT ![q.lead] = UpdatedRow(q.db_lead, q.update_data)]
            /\ sessions' = [sessions EXCEPT ![s] =
                  IF HasChanges(q.db_lead, q.update_data)
                  THEN [q EXCEPT !.pc = "committed"] @@ [order |-> Commits + 1]
                  ELSE Done(q, Ok) @@ [order |-> Commits + 1]]
    /\ UNCHANGED <<orgVars, leadCount, history, now, last>>

(* service.update_lead up to session.refresh: the diff against db_lead and *)
(* the commit.  An UPDATE that matches no row raises StaleDataError.       *)
UpdateLeadCommit(s) ==
    LET q == sessions[s] IN
    /\ q.pc = "loaded"
    /\ q.op = "update_lead"
    /\ IF q.lead \notin DOMAIN leads
       THEN /\ sessions' = [sessions EXCEPT ![s] = Done(q, Resp(500, "StaleDataError"))]
            /\ UNCHANGED leads
       ELSE LET row == CommittedRow(leads[q.lead], q.db_lead, q.update_data) IN
            IF RowRejected(row)
            THEN /\ sessions' = [sessions EXCEPT ![s] = Done(q, IntegrityError)]
                 /\ UNCHANGED leads
            ELSE /\ leads' = [leads EXCEPT ![q.lead] = row]
                 /\ sessions' = [sessions EXCEPT ![s] =
                       IF HasChanges(q.db_lead, q.update_data)
                       THEN [q EXCEPT !.pc = "committed"] @@ [order |-> Commits + 1]
                       ELSE Done(q, Ok) @@ [order |-> Commits + 1]]
    /\ UNCHANGED <<orgVars, leadCount, history, now, last>>

(* service.update_lead, "if changes:": the history entry of the diff that  *)
(* was computed before the commit, in a commit of its own                  *)
UpdateLeadHistory(s) ==
    LET q == sessions[s] IN
    /\ q.pc = "committed"
    /\ q.op = "update_lead"
    /\ create_lead_history(q.lead, HistoryAction(q.update_data), q.user,
                           changed_old(q.db_lead, q.update_data),
                           changed_new(q.db_lead, q.update_data))
    /\ sessions' = [sessions EXCEPT ![s] = Done(q, Ok) @@ [entry |-> Len(history) + 1]]
    /\ UNCHANGED <<orgVars, leads, leadCount, now, last>>

(* Two update requests on the lead l1 of o1, which its Owner u1 created;   *)
(* u2 is Admin or Member of o1.                                            *)
RaceInit ==
    /\ organizations = ("o1" :> [name |-> "Owner Corp"])
    /\ orgCount = 1
    /\ \E r \in {"admin", "member"} :
          links = [k \in OrgIds \X Users |->
                      IF k = <<"o1", "u1">> THEN "owner"
                      ELSE IF k = <<"o1", "u2">> THEN r
                      ELSE None]
    /\ leads = ("l1" :> [organization_id |-> "o1", name |-> "Acme", status |-> "new",
                         assigned_to_id |-> None, updated_at |-> 0])
    /\ leadCount = 1
    /\ history = <<[lead_id |-> "l1", action |-> "created", performed_by_id |-> "u1",
                    old_value |-> NoDict,
                    new_value |-> provided_data("o1", ("name" :> "Acme"))]>>
    /\ issued = {Token("invitation", UuidStr("o1"), 0, "valid")}
    /\ now = 0
    /\ last = NoRequest
    /\ sessions = NoSessions

(* The payloads of the two updates: the lead is renamed, possibly to null, *)
(* moved to a status, or assigned to u2                                    *)
RaceUpdates ==
    {n @@ st @@ a :
        n \in Opt("name", {"Bolt", "Core", None}),
        st \in Opt("status", LeadStatuses),
        a \in Opt("assigned_to_id", {"u2"})}

RaceNext ==
    \/ \E s \in Sessions, u \in {"u1", "u2"}, d \in RaceUpdates :
          UpdateLeadBegin(s, "o1", u, "l1", d)
    \/ \E s \in Sessions : UpdateLeadCommit(s)
    \/ \E s \in Sessions : UpdateLeadHistory(s)

SpecRace == RaceInit /\ [][RaceNext]_vars

(* The update of session s passed the checks of the router *)
Admitted(s) == sessions[s].pc # "idle" /\ "db_lead" \in DOMAIN sessions[s]

(* The diff the update of session s computed *)
DiffOf(s) == ChangedKeys(sessions[s].db_lead, sessions[s].update_data)

(* C18: of two updates of the same lead that overlap, neither stops the    *)
(* other: an update that is loaded can commit and one that has committed   *)
(* can write its history, whatever the other has done; the only update     *)
(* answered an error is one whose own payload nulls a required field; a    *)
(* field both changed has the value of the update that committed last; and *)
(* every finished update with a non-empty diff has a history entry of its  *)
(* own that holds exactly its diff.                                        *)
C18_LastWriteWins ==
    /\ \A s \in Sessions :
          /\ sessions[s].pc = "loaded" => ENABLED UpdateLeadCommit(s)
          /\ sessions[s].pc = "committed" => ENABLED UpdateLeadHistory(s)
          /\ (sessions[s].pc = "done" /\ Admitted(s)) =>
                /\ sessions[s].resp = IF NullsRequired(sessions[s].update_data)
                                      THEN IntegrityError ELSE Ok
                /\ (sessions[s].resp = Ok /\ DiffOf(s) # {}) =>
                      LET h == history[sessions[s].entry] IN
                      /\ h.lead_id = sessions[s].lead
                      /\ h.performed_by_id = sessions[s].user
                      /\ DOMAIN h.new_value = DiffOf(s)
                      /\ \A k \in DiffOf(s) :
                            h.new_value[k] = Stored(sessions[s].update_data[k])
    /\ \A s, t \in Sessions :
          (/\ "order" \in DOMAIN sessions[s] /\ "order" \in DOMAIN sessions[t]
           /\ sessions[s].order < sessions[t].order) =>
              /\ \A k \in DiffOf(s) \cap DiffOf(t) :
                    leads[sessions[t].lead][k] = sessions[t].update_data[k]
              /\ ("entry" \in DOMAIN sessions[s] /\ "entry" \in DOMAIN sessions[t])
                    => sessions[s].entry # sessions[t].entry
    /\ Len(history) = 1 + Cardinality({s \in Sessions : "entry" \in DOMAIN sessions[s]})

(* Both updates loaded the lead before either committed, both changed its  *)
(* name, to different values, and both are finished with their entries.    *)
C18_Witness ==
    /\ \A s \in Sessions : sessions[s].pc = "done" /\ "entry" \in DOMAIN sessions[s]
    /\ sessions["s1"].db_lead = sessions["s2"].db_lead
    /\ "name" \in DiffOf("s1") \cap DiffOf("s2")
    /\ sessions["s1"].update_data["name"] # sessions["s2"].update_data["name"]

-----------------------------------------------------------------------------
(* The history table over the lead requests (SpecScope) *)

(* C19: no step of a lead request changes or removes a history entry: the  *)
(* history before the step is a prefix of the history after it; a          *)
(* delete_lead leaves the history as it is, the entries of the deleted     *)
(* lead included; and the history grows by one entry at a time, and only   *)
(* in a create_lead or in an update_lead that changed a field.             *)
C19_AppendOnly ==
    [][/\ Len(history') >= Len(history)
       /\ SubSeq(history', 1, Len(history)) = history
       /\ last'.op = "delete_lead" => history' = history
       /\ history' # history =>
             /\ Len(history') = Len(history) + 1
             /\ history'[Len(history')].lead_id = last'.lead
             /\ \/ last'.op = "create_lead"
                \/ last'.op = "update_lead" /\ last'.changed # {}]_vars

(* A lead with a created entry was deleted: the lead is gone and its entry  *)
(* is still in the history.                                                *)
C19_Witness ==
    /\ last.op = "delete_lead"
    /\ last.resp = Ok
    /\ last.lead \notin DOMAIN leads
    /\ \E i \in 1..Len(history) :
          history[i].lead_id = last.lead /\ history[i].action = "created"

-----------------------------------------------------------------------------
(* update_member_role and remove_member in steps (organizations/router.py, *)
(* organizations/service.py)                                               *)

(* router.update_member_role up to the call of the service: the requester's *)
(* link and the target's are selected and the hierarchy is checked on them *)
UpdateMemberRoleCheck(s, o, u, target, role) ==
    LET r == UpdateMemberRoleResp(o, u, target, role)
        q == [pc |-> "checked", op |-> "update_member_role", org |-> o, user |-> u,
              requester_role |-> get_member_link(o, u),
              target |-> target, target_role |-> get_member_link(o, target),
              role |-> role] IN
    /\ sessions[s] = Idle
    /\ sessions' = [sessions EXCEPT ![s] = IF r = Ok THEN q ELSE Done(q, r)]
    /\ UNCHANGED <<orgVars, leadVars, now, last>>

(* service.update_member_role: the link is selected again, by its key and  *)
(* with no condition on its role, and the new role is assigned and         *)
(* committed.  The select returns the object the Session already holds     *)
(* with the role it was loaded with, so assigning that same role changes   *)
(* no attribute and the commit writes nothing.                             *)
UpdateMemberRoleWrite(s) ==
    LET q == sessions[s] IN
    /\ q.pc = "checked"
    /\ q.op = "update_member_role"
    /\ IF q.role # q.target_role
       THEN update_member_role(q.org, q.target, q.role)
       ELSE UNCHANGED links
    /\ sessions' = [sessions EXCEPT ![s] = Done(q, Ok)]
    /\ UNCHANGED <<organizations, orgCount, issued, leadVars, now, last>>

(* router.remove_member up to the call of the service *)
RemoveMemberCheck(s, o, u, target) ==
    LET r == RemoveMemberResp(o, u, target)
        q == [pc |-> "checked", op |-> "remove_member", org |-> o, user |-> u,
              requester_role |-> get_member_link(o, u),
              target |-> target, target_role |-> get_member_link(o, target)] IN
    /\ sessions[s] = Idle
    /\ sessions' = [sessions EXCEPT ![s] = IF r = Ok THEN q ELSE Done(q, r)]
    /\ UNCHANGED <<orgVars, leadVars, now, last>>

(* service.remove_member: the link is selected again and deleted *)
RemoveMemberWrite(s) ==
    LET q == sessions[s] IN
    /\ q.pc = "checked"
    /\ q.op = "remove_member"
    /\ remove_member(q.org, q.target)
    /\ sessions' = [sessions EXCEPT ![s] = Done(q, Ok)]
    /\ UNCHANGED <<organizations, orgCount, issued, leadVars, now, last>>

(* Two member requests on o1: u1 is its Owner, u2 an Admin, and u3 joined  *)
(* and is Member or Viewer.                                                *)
RoleInit ==
    /\ organizations = ("o1" :> [name |-> "Owner Corp"])
    /\ orgCount = 1
    /\ \E r \in {"member", "viewer"} :
          links = [k \in OrgIds \X Users |->
                      IF k = <<"o1", "u1">> THEN "owner"
                      ELSE IF k = <<"o1", "u2">> THEN "admin"
                      ELSE IF k = <<"o1", "u3">> THEN r
                      ELSE None]
    /\ leads = <<>>
    /\ leadCount = 0
    /\ history = <<>>
    /\ issued = {Token("invitation", UuidStr("o1"), 0, "valid")}
    /\ now = 0
    /\ last = NoRequest
    /\ sessions = NoSessions

RoleNext ==
    \/ \E s \in Sessions, u \in Users, t \in Users, r \in Roles :
          UpdateMemberRoleCheck(s, "o1", u, t, r)
    \/ \E s \in Sessions : UpdateMemberRoleWrite(s)
    \/ \E s \in Sessions, u \in Users, t \in Users : RemoveMemberCheck(s, "o1", u, t)
    \/ \E s \in Sessions : RemoveMemberWrite(s)

SpecRole == RoleInit /\ [][RoleNext]_vars

(* C20: the write of a request that an Admin sent (Admin when its checks   *)
(* ran) leaves every link alone whose role is Owner or Admin when the      *)
(* write happens.                                                          *)
C20_OwnerProtectedAtWrite ==
    [][\A s \in Sessions :
          (/\ sessions[s].pc = "checked"
           /\ sessions'[s].pc = "done"
           /\ sessions[s].requester_role = "admin") =>
              \A k \in DOMAIN links : links[k] \in Managers => links'[k] = links[k]]_vars

(* An Admin's request passed its checks on a target that was Member or     *)
(* Viewer, and the target is Owner or Admin now, before the write.         *)
C20_Witness ==
    \E s \in Sessions :
        /\ sessions[s].pc = "checked"
        /\ sessions[s].requester_role = "admin"
        /\ sessions[s].target_role \in {"member", "viewer"}
        /\ links[<<sessions[s].org, sessions[s].target>>] \in Managers

-----------------------------------------------------------------------------
(* The history entries of overlapping updates against the store (SpecRace) *)

(* Session s commits its lead in this step *)
CommitsLead(s) ==
    /\ sessions[s].pc = "loaded"
    /\ "order" \in DOMAIN sessions'[s]

(* Session s writes its history entry in this step *)
WritesEntry(s) ==
    /\ sessions[s].pc = "committed"
    /\ "entry" \in DOMAIN sessions'[s]

(* No update is in flight *)
Quiescent == \A s \in Sessions : sessions[s].pc \in {"idle", "done"}

(* C21: the entry an update writes holds the diff the update computed; for *)
(* every key of that diff the old value is the value the store held just   *)
(* before the update's commit and the new value the one it held just       *)
(* after; and once no update is in flight every field of a lead has the    *)
(* value its history accounts for.                                         *)
C21_FaithfulHistory ==
    /\ [][\A s \in Sessions : CommitsLead(s) =>
             LET q == sessions[s] IN
             \A k \in ChangedKeys(q.db_lead, q.update_data) :
                 /\ changed_old(q.db_lead, q.update_data)[k] = Stored(leads[q.lead][k])
                 /\ changed_new(q.db_lead, q.update_data)[k] = Stored(leads'[q.lead][k])]_vars
    /\ [][\A s \in Sessions : WritesEntry(s) =>
             LET q == sessions[s]
                 h == history'[Len(history')] IN
             /\ h.lead_id = q.lead
             /\ h.old_value = changed_old(q.db_lead, q.update_data)
             /\ h.new_value = changed_new(q.db_lead, q.update_data)]_vars
    /\ [](Quiescent =>
             \A l \in DOMAIN leads, k \in LeadFields : Stored(leads[l][k]) = Audited(l, k))

(* Both updates loaded the lead as it was created, one has committed a new *)
(* name, and the other is about to commit a different one with the diff it *)
(* computed against the name it loaded.                                    *)
C21_Witness ==
    \E s, t \in Sessions :
        /\ sessions[s].pc = "loaded"
        /\ "order" \in DOMAIN sessions[t]
        /\ sessions[s].db_lead = sessions[t].db_lead
        /\ "name" \in DiffOf(s) \cap DiffOf(t)
        /\ sessions[s].update_data["name"] \notin {None, sessions[t].update_data["name"]}
        /\ leads[sessions[s].lead].name # sessions[s].db_lead.name

-----------------------------------------------------------------------------
(* The assignee of a lead against the members of its organization (SpecLead) *)

(* The lead l is unassigned or assigned to a member of its organization *)
AssigneeIsMember(l) ==
    leads[l].assigned_to_id # None =>
        get_member_link(leads[l].organization_id, leads[l].assigned_to_id) # None

(* C22: in every state every assigned lead is assigned to a member of its  *)
(* organization, and a create_lead that names an assignee who is not a     *)
(* member is answered an error and adds no lead and no history entry.      *)
C22_AssigneeIsMember ==
    /\ [](\A l \in DOMAIN leads : AssigneeIsMember(l))
    /\ [][(/\ last'.op = "create_lead"
           /\ last'.role \in CanWrite
           /\ last'.assignee # None
           /\ get_member_link(last'.org, last'.assignee) = None) =>
              /\ last'.resp.status >= 400
              /\ leads' = leads
              /\ history' = history]_vars

(* An update by the Owner changed the assignee of a lead, was answered 200, *)
(* and the lead is now assigned to a user with no link to the organization *)
C22_Witness ==
    /\ last.op = "update_lead"
    /\ last.resp = Ok
    /\ "assigned_to_id" \in last.changed
    /\ last.lead \in DOMAIN leads
    /\ ~AssigneeIsMember(last.lead)

====
